---- MODULE Spec2Model ----
(***************************************************************************)
(* Lumiere: a single-user French flashcard application.                    *)
(*                                                                         *)
(* JavaScript strings on which the code does character work (id, french,   *)
(* translation, the search query, the typed word) are sequences of UTF-16  *)
(* code units.  Strings that the code only compares or shows (messages,    *)
(* texture tags, ...) are TLA+ strings.  A JavaScript object is a function *)
(* from its keys to their values; a key the object lacks is not in the     *)
(* DOMAIN.                                                                 *)
(***************************************************************************)
EXTENDS Integers, Sequences, FiniteSets, Bags, TLC

VARIABLES
    \* ---- platform and build
    now,              \* Date.now(), the millisecond clock
    apiKey,           \* geminiService.ts: const apiKey (fixed when the bundle is built)
    stored,           \* localStorage item under STORAGE_KEY: NoItem or the JSON text
    \* ---- App state (useState of App)
    cards, view, selectedCardId, isEditing, searchQuery, isModalOpen, isSettingsOpen,
    \* ---- AddWordModal state
    inputWord, isLoading, error,
    inflight,         \* bag of generation calls awaiting the network, each with its closure
    \* ---- persistence adapter under test
    loaded,           \* the value last returned by loadCards()
    \* ---- speech platform and pronunciation client
    supported,        \* 'speechSynthesis' in window
    voices,           \* speechSynthesis.getVoices()
    onvoiceschanged,  \* speechSynthesis.onvoiceschanged
    calls,            \* playPronunciation calls: call id -> record
    queue,            \* the synthesizer's utterance queue (head is being spoken)
    cancelled,        \* utterances removed by cancel() whose error event is not yet delivered
    isPlaying, isPlayingExample,
    \* ---- history
    lastDelete,       \* the last handleDeleteCard call: its id, and whether that card was on view
    \* ---- presentation helpers: the last call of each and what it returned
    themed,           \* getThemeForId
    textured,         \* getTextureForCard
    sized,            \* getFontSize
    \* ---- mounting
    boot,             \* the last mount of the App: the item it found, whether its load effect threw
    \* ---- settings sheet
    userKey,          \* localStorage item under 'user_gemini_api_key' ('' when there is none)
    settings          \* SettingsModal: its state, and its close timers not yet fired

appVars == <<now, apiKey, stored, cards, view, selectedCardId, isEditing, searchQuery,
             isModalOpen, isSettingsOpen, inputWord, isLoading, error, inflight>>
speechVars == <<supported, voices, onvoiceschanged, calls, queue, cancelled,
                isPlaying, isPlayingExample>>
helperVars == <<themed, textured, sized>>
envVars == <<boot, userKey, settings>>
vars == <<appVars, loaded, speechVars, lastDelete, helperVars, envVars>>

-----------------------------------------------------------------------------
(* Bounds of the model *)

MaxTime == 2          \* the clock advances at most MaxTime - 1 times
MaxCards == 2         \* cards held plus generation calls in flight
MaxCalls == 3         \* playPronunciation calls in one behaviour
MaxLen == 2           \* length of the collections handed to the persistence adapter
MaxIdLen == 3         \* length of the ids handed to getThemeForId
MaxTextLen == 14      \* length of the texts handed to getFontSize
MaxVoices == 2        \* length of the voice lists the platform offers
MaxTimers == 1        \* close timers of the settings sheet not yet fired

-----------------------------------------------------------------------------
(* Strings as sequences of UTF-16 code units *)

Str_chat  == <<99, 104, 97, 116>>
Str_chien == <<99, 104, 105, 101, 110>>
Str_Chou  == <<67, 104, 111, 117>>
Str_eau   == <<101, 97, 117>>
Str_lune  == <<108, 117, 110, 101>>
Str_pain  == <<112, 97, 105, 110>>
Str_ch    == <<99, 104>>
Str_CH    == <<67, 72>>
Str_mao   == <<29483>>          \* U+732B
Str_gou   == <<29399>>          \* U+72D7
Str_cai   == <<33756>>          \* U+83DC
Str_shui  == <<27700>>          \* U+6C34
Str_yue   == <<26376>>          \* U+6708
Str_bao   == <<21253>>          \* U+5305
Str_blank == <<32>>
Empty     == <<>>

\* String.prototype.toLowerCase on the Basic Latin and Latin-1 letters
LowerUnit(u) ==
    IF (u >= 65 /\ u <= 90) \/ (u >= 192 /\ u <= 222 /\ u # 215) THEN u + 32 ELSE u

toLowerCase(s) == [i \in 1..Len(s) |-> LowerUnit(s[i])]

\* String.prototype.includes
includes(s, q) ==
    \E i \in 0..(Len(s) - Len(q)) : \A j \in 1..Len(q) : s[i + j] = q[j]

IsSpace(u) == u \in {9, 10, 11, 12, 13, 32, 160}

\* String.prototype.trim
trim(s) ==
    LET keep == {i \in 1..Len(s) : ~IsSpace(s[i])}
    IN  IF keep = {} THEN Empty
        ELSE LET lo == CHOOSE i \in keep : \A j \in keep : i <= j
                 hi == CHOOSE i \in keep : \A j \in keep : j <= i
             IN  SubSeq(s, lo, hi)

RECURSIVE Digits(_)
\* Number.prototype.toString of a non-negative integer
Digits(n) == IF n < 10 THEN <<48 + n>> ELSE Append(Digits(n \div 10), 48 + (n % 10))

-----------------------------------------------------------------------------
(* Objects, JSON and the persistence adapter *)

\* Own keys of a stored card, in the order handleSaveWord creates them
KeyOrder == <<"id", "french", "translation", "definition", "exampleSentence",
              "exampleTranslation", "phonetic", "gender", "nuance", "texture",
              "createdAt">>

\* JSON.stringify of one object: its members, key by key; a key whose value is
\* undefined (here: a key the object lacks) is left out
stringifyObject(o) ==
    LET ks == SelectSeq(KeyOrder, LAMBDA k : k \in DOMAIN o)
    IN  [i \in 1..Len(ks) |-> <<ks[i], o[ks[i]]>>]

\* JSON.parse of one object: the last member of a name wins
parseObject(m) ==
    [k \in {m[i][1] : i \in 1..Len(m)} |->
        LET last == CHOOSE i \in 1..Len(m) :
                        /\ m[i][1] = k
                        /\ \A j \in (i + 1)..Len(m) : m[j][1] # k
        IN  m[last][2]]

\* JSON.stringify(cards): the array, element by element
JSONstringify(cs) == [i \in 1..Len(cs) |-> stringifyObject(cs[i])]

\* Faulty variant: the array comes back in reverse
JSONparse_Reversed(text) ==
    [i \in 1..Len(text) |-> parseObject(text[Len(text) + 1 - i])]

\* JSON.parse(text) of an array of objects
JSONparse(text) == [i \in 1..Len(text) |-> parseObject(text[i])]

\* localStorage.getItem(STORAGE_KEY) === null
NoItem == [kind |-> "none", text |-> <<>>]

\* Faulty variant: nothing is written
saveCards_Nothing(cs) == NoItem

\* saveCards: the item that localStorage.setItem leaves under STORAGE_KEY
saveCards(cs) == [kind |-> "json", text |-> JSONstringify(cs)]

\* The item is the empty string
EmptyItem == [kind |-> "empty", text |-> <<>>]

\* The item is a text, not empty, that is not JSON (a truncated write, say)
CorruptItem == [kind |-> "corrupt", text |-> <<>>]

\* data ? ... : ... takes null and '' for false
Truthy(item) == item.kind \notin {"none", "empty"}

\* JSON.parse(data) throws a SyntaxError: '' is not JSON either
JSONparseThrows(item) == item.kind \in {"empty", "corrupt"}

\* Faulty variant: text that is not JSON reads as no cards
loadCardsThrows_FailsOpen(item) == FALSE

\* loadCards() throws: nothing in it, nor in the effect that calls it, catches
loadCardsThrows(item) == Truthy(item) /\ JSONparseThrows(item)

\* loadCards: data ? JSON.parse(data) : [], when it does not throw
loadCards(item) == IF ~Truthy(item) THEN <<>> ELSE JSONparse(item.text)

-----------------------------------------------------------------------------
(* Cards *)

Ids(cs) == {cs[i]["id"] : i \in 1..Len(cs)}

\* Faulty variant: the cards that remain come out in reverse
WithoutId_Reversed(cs, id) ==
    LET rest == SelectSeq(cs, LAMBDA c : c["id"] # id)
    IN  [i \in 1..Len(rest) |-> rest[Len(rest) + 1 - i]]

\* prevCards.filter(c => c.id !== id)
WithoutId(cs, id) == SelectSeq(cs, LAMBDA c : c["id"] # id)

\* A card as handleSaveWord builds it: {id, french: word, ...details, createdAt},
\* t1 and t2 being the two readings of Date.now()
NewCard(t1, word, details, t2) ==
    [k \in {"id", "french", "createdAt"} \cup DOMAIN details |->
        IF k = "createdAt" THEN t2
        ELSE IF k \in DOMAIN details THEN details[k]
        ELSE IF k = "id" THEN Digits(t1)
        ELSE word]

\* What the generation endpoint answers for a word
Details(translation, texture) ==
    [translation |-> translation, definition |-> "definition",
     exampleSentence |-> "exemple", exampleTranslation |-> "traduction",
     phonetic |-> "phonetic", gender |-> "Masculin", nuance |-> "nuance",
     texture |-> texture]

\* A card saved by an earlier session
OldCard(t, word, translation) == NewCard(t, word, Details(translation, "stone"), t)

\* A collection an earlier session may have left under STORAGE_KEY
Six == <<OldCard(300, Str_Chou, Str_cai), OldCard(100, Str_chat, Str_mao),
         OldCard(200, Str_chien, Str_gou), OldCard(400, Str_eau, Str_shui),
         OldCard(500, Str_lune, Str_yue), OldCard(600, Str_pain, Str_bao)>>

-----------------------------------------------------------------------------
(* Card generation client: generateWordDetails *)

NoKey == ""

MissingKeyError == "API Key is missing"
NoResponseError == "No response from Gemini"
SyntaxError     == "SyntaxError: Unexpected token"
NetworkError    == "TypeError: fetch failed"

\* The synchronous part: throws when no key is configured, else sends the request
generateWordDetails(key) ==
    IF key = NoKey THEN [threw |-> TRUE, message |-> MissingKeyError]
    ELSE [threw |-> FALSE, message |-> ""]

\* A JSON object that lacks seven of the eight fields of the schema
PartialDetails == [translation |-> Str_mao]

\* What the endpoint may answer: nothing (the request fails), a response without
\* text, text that is not JSON, or the text of a JSON object
Responses ==
    {[kind |-> "rejected"], [kind |-> "notext"], [kind |-> "badjson"]}
    \cup {[kind |-> "json", value |-> Details(Str_mao, "fur")]}
    \cup {[kind |-> "json", value |-> PartialDetails]}

\* The part after the await: the parsed details, or the error thrown
generateWordDetailsResume(r) ==
    IF r.kind = "rejected" THEN [threw |-> TRUE, message |-> NetworkError]
    ELSE IF r.kind = "notext" THEN [threw |-> TRUE, message |-> NoResponseError]
    ELSE IF r.kind = "badjson" THEN [threw |-> TRUE, message |-> SyntaxError]
    ELSE [threw |-> FALSE, value |-> r.value]

-----------------------------------------------------------------------------
(* AddWordModal *)

NoError == ""
MissingKeyText == "Cle API manquante. Veuillez la configurer dans les parametres."
GenericText    == "Une erreur est survenue. Verifiez votre connexion."

\* handleSubmit's catch: the test that takes an error for the missing credential
IsMissingKey(message) == message = "MISSING_API_KEY"

\* handleSubmit's catch: the message set for a caught error
ErrorTextFor(message) ==
    IF IsMissingKey(message) THEN MissingKeyText ELSE GenericText

\* error.includes("Cle API"): the sheet offers "Configurer maintenant"
ShowsConfigure(e) == e = MissingKeyText

\* Words the user types
Words == {Str_chat, Str_blank}

-----------------------------------------------------------------------------
(* App: what is on screen *)

Null == <<>>          \* selectedCardId: null (no id is the empty string)

HOME   == "HOME"
REVIEW == "REVIEW"

\* renderContent: selectedCardId && activeCard
DetailShown == selectedCardId # Null /\ selectedCardId \in Ids(cards)
\* a sheet covers the screen below it
NoSheet == ~isModalOpen /\ ~isSettingsOpen
BrowseShown == ~DetailShown

\* Faulty variant: the translation is not searched
Matches_HeadwordOnly(c, q) == includes(toLowerCase(c["french"]), toLowerCase(q))

\* The predicate of the filter
Matches(c, q) ==
    \/ includes(toLowerCase(c["french"]), toLowerCase(q))
    \/ includes(c["translation"], q)

\* Faulty variant: the query is compared as typed
Filter_QueryAsTyped(cs, q) ==
    SelectSeq(cs, LAMBDA c : includes(toLowerCase(c["french"]), q) \/ includes(c["translation"], q))

\* cards.filter(c => c.french.toLowerCase().includes(searchQuery.toLowerCase())
\*                   || c.translation.includes(searchQuery))
Filter(cs, q) == SelectSeq(cs, LAMBDA c : Matches(c, q))

filteredCards == Filter(cards, searchQuery)

\* The comparator of the review sort: (a, b) => a.createdAt - b.createdAt
ByCreatedAt(a, b) == a["createdAt"] - b["createdAt"]

\* Faulty variant: the copy is not sorted
SortByCreatedAt_Unsorted(cs) == cs

\* [...cs].sort(ByCreatedAt): a copy, sorted; Array.prototype.sort is stable, so
\* the element at i comes after those the comparator puts before it and after
\* the earlier ones it ties with
SortByCreatedAt(cs) ==
    LET n == Len(cs)
        Rank(i) == Cardinality({j \in 1..n :
                       \/ ByCreatedAt(cs[j], cs[i]) < 0
                       \/ ByCreatedAt(cs[j], cs[i]) = 0 /\ j < i}) + 1
    IN  [p \in 1..n |-> cs[CHOOSE i \in 1..n : Rank(i) = p]]

\* renderContent: displayedCards
Displayed(v, cs, q) == IF v = REVIEW THEN SortByCreatedAt(Filter(cs, q)) ELSE Filter(cs, q)

displayedCards == Displayed(view, cards, searchQuery)

-----------------------------------------------------------------------------
(* Helpers for theming *)

CARD_THEMES ==
    <<[id |-> "stone", bg |-> "bg-[#BDB7AB]"], [id |-> "clay", bg |-> "bg-[#C8B2A0]"],
      [id |-> "sage", bg |-> "bg-[#A8B5A5]"], [id |-> "slate", bg |-> "bg-[#9FA8B0]"],
      [id |-> "mauve", bg |-> "bg-[#B5A8A8]"], [id |-> "sand", bg |-> "bg-[#C2BCA8]"],
      [id |-> "mist", bg |-> "bg-[#AAB7B8]"]>>

RECURSIVE reduceCharCodes(_, _)
\* id.split('').reduce((acc, char) => acc + char.charCodeAt(0), acc)
reduceCharCodes(acc, id) ==
    IF id = <<>> THEN acc ELSE reduceCharCodes(acc + Head(id), Tail(id))

\* Faulty variant: the theme follows the length of the id
getThemeForId_ByLength(id) == CARD_THEMES[(Len(id) % Len(CARD_THEMES)) + 1]

\* CARD_THEMES[num % CARD_THEMES.length], JavaScript arrays counting from 0
getThemeForId(id) ==
    CARD_THEMES[(reduceCharCodes(0, id) % Len(CARD_THEMES)) + 1]

\* A data URI of TEXTURE_STYLES, named by the SVG filter it draws
Pattern(filter) == [kind |-> "pattern", of |-> filter]

\* TEXTURE_STYLES: its own properties
TEXTURE_STYLES ==
    [stone |-> Pattern("noiseFilter"), fur |-> Pattern("furFilter"),
     wood |-> Pattern("woodFilter"), water |-> Pattern("waterFilter"),
     fabric |-> Pattern("fabricFilter"), plant |-> Pattern("plantFilter"),
     metal |-> Pattern("metalFilter")]

\* TEXTURE_STYLES is an object literal: it inherits the properties of
\* Object.prototype, these among them
ObjectPrototype == {"constructor", "toString", "__proto__"}

\* obj[key]: an own property, else an inherited one, else undefined
Get(obj, key) ==
    IF key \in DOMAIN obj THEN obj[key]
    ELSE IF key \in ObjectPrototype THEN [kind |-> "inherited", of |-> key]
    ELSE [kind |-> "undefined", of |-> ""]

\* !v for what Get returns: patterns are non-empty strings, the inherited
\* properties are functions and objects
Falsy(v) == v.kind = "undefined"

\* getTextureForCard(textureType?): textureType is <<>> when undefined, else
\* the one-element sequence of the string
getTextureForCard(textureType) ==
    IF textureType = <<>> \/ textureType[1] = "" \/ Falsy(Get(TEXTURE_STYLES, textureType[1]))
    THEN TEXTURE_STYLES.stone
    ELSE Get(TEXTURE_STYLES, textureType[1])

\* Faulty variant: the bands end one short
getFontSize_Strict(text) ==
    IF Len(text) < 4 THEN "text-6xl sm:text-7xl leading-none"
    ELSE IF Len(text) < 8 THEN "text-5xl sm:text-6xl leading-none"
    ELSE IF Len(text) < 12 THEN "text-4xl sm:text-5xl leading-tight"
    ELSE "text-3xl sm:text-4xl leading-tight"

\* getFontSize: the size classes by text.length
getFontSize(text) ==
    IF Len(text) <= 4 THEN "text-6xl sm:text-7xl leading-none"
    ELSE IF Len(text) <= 8 THEN "text-5xl sm:text-6xl leading-none"
    ELSE IF Len(text) <= 12 THEN "text-4xl sm:text-5xl leading-tight"
    ELSE "text-3xl sm:text-4xl leading-tight"

\* No call of the helper has been made
NoTheme == [id |-> "", bg |-> ""]
NoCall == "none"
NoPattern == [kind |-> "none", of |-> ""]

-----------------------------------------------------------------------------
(* Initial state: the App is mounted and its effects have run *)

NoCalls == <<>>

\* onvoiceschanged holds a handler: a positive c is the closure that
\* playPronunciation call c has installed
NoHandler  == 0       \* onvoiceschanged = null
AppPreload == -1      \* onvoiceschanged = load, set by the App's effect

\* No pronunciation has been asked for; the App's effect has set onvoiceschanged
SpeechIdle ==
    /\ onvoiceschanged = AppPreload
    /\ calls = NoCalls
    /\ queue = <<>>
    /\ cancelled = {}
    /\ isPlaying = FALSE
    /\ isPlayingExample = FALSE

\* The App mounted over the item found under STORAGE_KEY
Mounted(item) ==
    /\ now = 701
    /\ apiKey \in {NoKey, "key"}
    /\ stored = item
    /\ cards = loadCards(stored)
    /\ view = HOME
    /\ selectedCardId = Null
    /\ isEditing = FALSE
    /\ searchQuery = Empty
    /\ isModalOpen = FALSE
    /\ isSettingsOpen = FALSE
    /\ inputWord = Empty
    /\ isLoading = FALSE
    /\ error = NoError
    /\ inflight = EmptyBag
    /\ loaded = <<>>
    /\ SpeechIdle
    /\ lastDelete = [id |-> Null, onView |-> FALSE]
    /\ themed = [id |-> <<>>, theme |-> NoTheme, before |-> NoTheme]
    /\ textured = [tag |-> <<>>, pattern |-> NoPattern]
    /\ sized = [text |-> <<>>, size |-> NoCall]
    /\ boot = [item |-> item, threw |-> FALSE]
    /\ userKey = Empty
    /\ settings = [apiKey |-> Empty, saved |-> FALSE, timers |-> 0]

\* First run: nothing is stored yet
Init == Mounted(NoItem) /\ supported = TRUE /\ voices = <<>>

\* A later run: an earlier session left six cards
InitBrowse == Mounted(saveCards(Six)) /\ supported = TRUE /\ voices = <<>>

-----------------------------------------------------------------------------
(* The clock *)

Tick ==
    /\ now < 700 + MaxTime
    /\ now' = now + 1
    /\ UNCHANGED <<apiKey, stored, cards, view, selectedCardId, isEditing, searchQuery,
                   isModalOpen, isSettingsOpen, inputWord, isLoading, error,
                   inflight, loaded, speechVars, lastDelete, helperVars, envVars>>

\* Date.now() reads the wall clock, which the system may set back
ClockSetBack ==
    /\ now > 701
    /\ now' = now - 1
    /\ UNCHANGED <<apiKey, stored, cards, view, selectedCardId, isEditing, searchQuery,
                   isModalOpen, isSettingsOpen, inputWord, isLoading, error,
                   inflight, loaded, speechVars, lastDelete, helperVars, envVars>>

-----------------------------------------------------------------------------
(* AddWordModal *)

\* The "Ajouter un mot..." bar; the effect on isOpen resets the sheet
OpenModal ==
    /\ BrowseShown /\ NoSheet
    /\ isModalOpen' = TRUE
    /\ inputWord' = Empty
    /\ error' = NoError
    /\ isLoading' = FALSE
    /\ UNCHANGED <<now, apiKey, stored, cards, view, selectedCardId, isEditing,
                   searchQuery, isSettingsOpen, inflight, loaded, speechVars, lastDelete, helperVars, envVars>>

\* The backdrop or the close button of the sheet
CloseModal ==
    /\ isModalOpen /\ ~isSettingsOpen
    /\ isModalOpen' = FALSE
    /\ UNCHANGED <<now, apiKey, stored, cards, view, selectedCardId, isEditing,
                   searchQuery, isSettingsOpen, inputWord, isLoading, error,
                   inflight, loaded, speechVars, lastDelete, helperVars, envVars>>

TypeWord(w) ==
    /\ isModalOpen /\ ~isSettingsOpen
    /\ inputWord # w
    /\ inputWord' = w
    /\ UNCHANGED <<now, apiKey, stored, cards, view, selectedCardId, isEditing,
                   searchQuery, isModalOpen, isSettingsOpen, isLoading, error,
                   inflight, loaded, speechVars, lastDelete, helperVars, envVars>>

\* The submit button is enabled
CanSubmit ==
    /\ isModalOpen /\ ~isSettingsOpen
    /\ ~isLoading
    /\ trim(inputWord) # Empty

\* handleSubmit when onSave rejects before any await: the catch and the finally
\* run before the next event
handleSubmitThrows ==
    /\ CanSubmit
    /\ generateWordDetails(apiKey).threw
    /\ error' = ErrorTextFor(generateWordDetails(apiKey).message)
    /\ isLoading' = FALSE
    /\ UNCHANGED <<now, apiKey, stored, cards, view, selectedCardId, isEditing,
                   searchQuery, isModalOpen, isSettingsOpen, inputWord, inflight,
                   loaded, speechVars, lastDelete, helperVars, envVars>>

\* handleSubmit when the request is sent: handleSaveWord waits with the cards of
\* the render it was created in
handleSubmitAwaits ==
    /\ CanSubmit
    /\ ~generateWordDetails(apiKey).threw
    /\ BagCardinality(inflight) + Len(cards) < MaxCards
    /\ isLoading' = TRUE
    /\ error' = NoError
    /\ inflight' = inflight (+) SetToBag({[word |-> inputWord, cards |-> cards]})
    /\ UNCHANGED <<now, apiKey, stored, cards, view, selectedCardId, isEditing,
                   searchQuery, isModalOpen, isSettingsOpen, inputWord,
                   loaded, speechVars, lastDelete, helperVars, envVars>>

\* Faulty variant: the new card is put behind the others
handleSaveWordCards_Appended(g, details, t) ==
    g.cards \o <<NewCard(t, g.word, details, t)>>

\* const updatedCards = [newCard, ...cards], with the cards of the closure; both
\* readings of Date.now() fall in the same millisecond
handleSaveWordCards(g, details, t) == <<NewCard(t, g.word, details, t)>> \o g.cards

\* The endpoint answers call g with details: handleSaveWord adds the card and
\* saves, handleSubmit closes the sheet
GenerationSucceeds(g, r) ==
    /\ ~generateWordDetailsResume(r).threw
    /\ cards' = handleSaveWordCards(g, generateWordDetailsResume(r).value, now)
    /\ stored' = saveCards(cards')
    /\ isModalOpen' = FALSE
    /\ isLoading' = FALSE
    /\ inflight' = inflight (-) SetToBag({g})
    /\ UNCHANGED <<now, apiKey, view, selectedCardId, isEditing, searchQuery,
                   isSettingsOpen, inputWord, error, loaded, speechVars, lastDelete, helperVars, envVars>>

\* Call g fails after the await: handleSubmit's catch and finally
GenerationFails(g, r) ==
    /\ generateWordDetailsResume(r).threw
    /\ error' = ErrorTextFor(generateWordDetailsResume(r).message)
    /\ isLoading' = FALSE
    /\ inflight' = inflight (-) SetToBag({g})
    /\ UNCHANGED <<now, apiKey, stored, cards, view, selectedCardId, isEditing,
                   searchQuery, isModalOpen, isSettingsOpen, inputWord, loaded,
                   speechVars, lastDelete, helperVars, envVars>>

-----------------------------------------------------------------------------
(* App handlers *)

\* The settings button of the header, or "Configurer maintenant" in the sheet
OpenSettings ==
    /\ ~isSettingsOpen
    /\ (BrowseShown /\ ~isModalOpen) \/ (isModalOpen /\ ShowsConfigure(error))
    /\ isSettingsOpen' = TRUE
    /\ settings' = [settings EXCEPT !.apiKey = userKey, !.saved = FALSE]
    /\ UNCHANGED <<now, apiKey, stored, cards, view, selectedCardId, isEditing,
                   searchQuery, isModalOpen, inputWord, isLoading, error,
                   inflight, loaded, speechVars, lastDelete, helperVars, boot, userKey>>

\* onClose of the settings sheet: its backdrop or its close button
CloseSettings ==
    /\ isSettingsOpen
    /\ isSettingsOpen' = FALSE
    /\ UNCHANGED <<now, apiKey, stored, cards, view, selectedCardId, isEditing,
                   searchQuery, isModalOpen, inputWord, isLoading, error,
                   inflight, loaded, speechVars, lastDelete, helperVars, envVars>>

\* What the user types in the key field: a key, a key between blanks, blanks
Str_k == <<107>>
KeysTyped == {Str_k, <<32>> \o Str_k \o <<32>>, Str_blank}

\* onChange of the key field
TypeKey(k) ==
    /\ isSettingsOpen
    /\ settings.apiKey # k
    /\ settings' = [settings EXCEPT !.apiKey = k]
    /\ UNCHANGED <<appVars, loaded, speechVars, lastDelete, helperVars, boot, userKey>>

\* SettingsModal.handleSave, the button being disabled while !apiKey.trim():
\* the trimmed key goes under 'user_gemini_api_key' and a timer of 800 ms is set
handleSave ==
    /\ isSettingsOpen
    /\ trim(settings.apiKey) # Empty
    /\ settings.timers < MaxTimers
    /\ userKey' = trim(settings.apiKey)
    /\ settings' = [settings EXCEPT !.saved = TRUE, !.timers = @ + 1]
    /\ UNCHANGED <<appVars, loaded, speechVars, lastDelete, helperVars, boot>>

\* The timer of handleSave fires: onClose()
SaveTimeout ==
    /\ settings.timers > 0
    /\ settings' = [settings EXCEPT !.timers = @ - 1]
    /\ isSettingsOpen' = FALSE
    /\ UNCHANGED <<now, apiKey, stored, cards, view, selectedCardId, isEditing,
                   searchQuery, isModalOpen, inputWord, isLoading, error,
                   inflight, loaded, speechVars, lastDelete, helperVars, boot, userKey>>

\* Faulty variant: the selection is left as it was
SelectionAfterDelete_Kept(sel, id) == sel

\* handleDeleteCard: what it leaves in selectedCardId
SelectionAfterDelete(sel, id) == IF sel = id THEN Null ELSE sel

\* handleDeleteCard(id), from the detail view or from the grid in edit mode
handleDeleteCard(id) ==
    /\ NoSheet
    /\ \/ DetailShown /\ id = selectedCardId
       \/ BrowseShown /\ isEditing /\ id \in Ids(displayedCards)
    /\ selectedCardId' = SelectionAfterDelete(selectedCardId, id)
    /\ cards' = WithoutId(cards, id)
    /\ stored' = saveCards(cards')
    /\ lastDelete' = [id |-> id, onView |-> DetailShown]
    /\ UNCHANGED <<now, apiKey, view, isEditing, searchQuery, isModalOpen,
                   isSettingsOpen, inputWord, isLoading, error, inflight,
                   loaded, speechVars, helperVars, envVars>>

\* Faulty variant: the click selects the card in edit mode too
onClickCard_Always(editing, sel, id) == id

\* !isEditing && setSelectedCardId(card.id): the selection after the click
onClickCard(editing, sel, id) == IF editing THEN sel ELSE id

\* onClick of a card of the grid
ClickCard(id) ==
    /\ NoSheet /\ BrowseShown
    /\ id \in Ids(displayedCards)
    /\ selectedCardId' = onClickCard(isEditing, selectedCardId, id)
    /\ UNCHANGED <<now, apiKey, stored, cards, view, isEditing, searchQuery,
                   isModalOpen, isSettingsOpen, inputWord, isLoading, error,
                   inflight, loaded, speechVars, lastDelete, helperVars, envVars>>

\* onBack of the detail view
Back ==
    /\ NoSheet /\ DetailShown
    /\ selectedCardId' = Null
    /\ UNCHANGED <<now, apiKey, stored, cards, view, isEditing, searchQuery,
                   isModalOpen, isSettingsOpen, inputWord, isLoading, error,
                   inflight, loaded, speechVars, lastDelete, helperVars, envVars>>

\* The tab bar, rendered when !selectedCardId
SetView(v) ==
    /\ NoSheet /\ selectedCardId = Null
    /\ view # v
    /\ view' = v
    /\ UNCHANGED <<now, apiKey, stored, cards, selectedCardId, isEditing, searchQuery,
                   isModalOpen, isSettingsOpen, inputWord, isLoading, error,
                   inflight, loaded, speechVars, lastDelete, helperVars, envVars>>

\* The "Modifier" / "OK" button
ToggleEdit ==
    /\ NoSheet /\ BrowseShown
    /\ isEditing' = ~isEditing
    /\ UNCHANGED <<now, apiKey, stored, cards, view, selectedCardId, searchQuery,
                   isModalOpen, isSettingsOpen, inputWord, isLoading, error,
                   inflight, loaded, speechVars, lastDelete, helperVars, envVars>>

Queries == {Empty, Str_ch, Str_CH, Str_gou}

\* The search input, rendered when cards.length > 5
SetSearch(q) ==
    /\ NoSheet /\ BrowseShown
    /\ Len(cards) > 5
    /\ searchQuery # q
    /\ searchQuery' = q
    /\ UNCHANGED <<now, apiKey, stored, cards, view, selectedCardId, isEditing,
                   isModalOpen, isSettingsOpen, inputWord, isLoading, error,
                   inflight, loaded, speechVars, lastDelete, helperVars, envVars>>

\* Opening, leaving and deleting from the detail view
Detail ==
    \/ \E id \in Ids(cards) : handleDeleteCard(id)
    \/ \E id \in Ids(cards) : ClickCard(id)
    \/ Back

Next ==
    \/ Tick
    \/ ClockSetBack
    \/ OpenModal
    \/ CloseModal
    \/ \E w \in Words \cup {Empty} : TypeWord(w)
    \/ handleSubmitThrows
    \/ handleSubmitAwaits
    \/ \E g \in BagToSet(inflight), r \in Responses : GenerationSucceeds(g, r)
    \/ \E g \in BagToSet(inflight), r \in Responses : GenerationFails(g, r)
    \/ Detail

Spec == Init /\ [][Next]_vars

NextBrowse ==
    \/ Detail
    \/ OpenSettings
    \/ CloseSettings
    \/ \E v \in {HOME, REVIEW} : SetView(v)
    \/ ToggleEdit
    \/ \E q \in Queries : SetSearch(q)

SpecBrowse == InitBrowse /\ [][NextBrowse]_vars

\* The collection on its own: a key is configured and the endpoint answers with
\* the object the schema asks for; cards are generated, opened and deleted
InitCollection == Init /\ apiKey = "key"

SchemaResponse == [kind |-> "json", value |-> Details(Str_mao, "fur")]

NextCollection ==
    \/ Tick
    \/ ClockSetBack
    \/ OpenModal
    \/ CloseModal
    \/ TypeWord(Str_chat)
    \/ handleSubmitAwaits
    \/ \E g \in BagToSet(inflight) : GenerationSucceeds(g, SchemaResponse)
    \/ Detail

SpecCollection == InitCollection /\ [][NextCollection]_vars

\* The settings sheet and the generation sheet, in a bundle built with or
\* without a key
NextSettings ==
    \/ OpenSettings
    \/ CloseSettings
    \/ \E k \in KeysTyped : TypeKey(k)
    \/ handleSave
    \/ SaveTimeout
    \/ OpenModal
    \/ CloseModal
    \/ TypeWord(Str_chat)
    \/ handleSubmitThrows
    \/ handleSubmitAwaits
    \/ \E g \in BagToSet(inflight) : GenerationFails(g, [kind |-> "rejected"])

SpecSettings == Init /\ [][NextSettings]_vars

-----------------------------------------------------------------------------
(* The persistence adapter on its own: any collection saved, then loaded *)

\* A card whose optional fields are absent
BareCard(t, word, translation) ==
    [id |-> Digits(t), french |-> word, translation |-> translation,
     definition |-> "definition", exampleSentence |-> "exemple",
     exampleTranslation |-> "traduction", createdAt |-> t]

StoreCards == {OldCard(100, Str_chat, Str_mao), OldCard(200, Str_chien, Str_gou),
               BareCard(300, Str_eau, Str_shui)}

\* Every sequence of at most n cards of S
RECURSIVE SeqsUpTo(_, _)
SeqsUpTo(S, n) ==
    IF n = 0 THEN {<<>>}
    ELSE LET shorter == SeqsUpTo(S, n - 1)
         IN  shorter \cup {Append(q, c) : q \in shorter, c \in S}

Collections == SeqsUpTo(StoreCards, MaxLen)

InitStore == Mounted(NoItem) /\ supported = TRUE /\ voices = <<>>

\* saveCards(cs), cs being the caller's collection
StoreSave(cs) ==
    /\ ~boot.threw
    /\ cards' = cs
    /\ stored' = saveCards(cs)
    /\ UNCHANGED <<now, apiKey, view, selectedCardId, isEditing, searchQuery,
                   isModalOpen, isSettingsOpen, inputWord, isLoading, error,
                   inflight, loaded, speechVars, lastDelete, helperVars, envVars>>

\* loadCards()
StoreLoad ==
    /\ loaded' = loadCards(stored)
    /\ UNCHANGED <<appVars, speechVars, lastDelete, helperVars, envVars>>

NextStore ==
    \/ \E cs \in Collections : StoreSave(cs)
    \/ StoreLoad

SpecStore == InitStore /\ [][NextStore]_vars

\* What may be found under STORAGE_KEY that saveCards has not written
ForeignItems == {NoItem, EmptyItem, CorruptItem}

\* The item under STORAGE_KEY is cleared or overwritten from outside the App
StorageTampered(item) ==
    /\ stored # item
    /\ stored' = item
    /\ UNCHANGED <<now, apiKey, cards, view, selectedCardId, isEditing, searchQuery,
                   isModalOpen, isSettingsOpen, inputWord, isLoading, error,
                   inflight, loaded, speechVars, lastDelete, helperVars, envVars>>

\* The page is loaded again: useState([]), then the effect setCards(loadCards());
\* when loadCards throws, the effect throws and setCards is not called
Reload ==
    /\ boot' = [item |-> stored, threw |-> loadCardsThrows(stored)]
    /\ cards' = (IF loadCardsThrows(stored) THEN <<>> ELSE loadCards(stored))
    /\ UNCHANGED <<now, apiKey, stored, view, selectedCardId, isEditing, searchQuery,
                   isModalOpen, isSettingsOpen, inputWord, isLoading, error,
                   inflight, loaded, speechVars, lastDelete, helperVars, userKey, settings>>

\* A session that saves, a store that is tampered with, the page loaded again
NextLoad ==
    \/ \E cs \in Collections : StoreSave(cs)
    \/ \E item \in ForeignItems : StorageTampered(item)
    \/ Reload

SpecLoad == InitStore /\ [][NextLoad]_vars

-----------------------------------------------------------------------------
(* The presentation helpers on their own: any card drawn in the grid *)

\* Code units of the ids: two digits and U+00E9
IdUnits == {48, 50, 233}

\* Every id of at most MaxIdLen code units, the empty string among them
IdsToTheme == SeqsUpTo(IdUnits, MaxIdLen)

InitRender == Mounted(NoItem) /\ apiKey = NoKey /\ supported = TRUE /\ voices = <<>>

\* getThemeForId(id), as the grid calls it for a card at every render; 'before'
\* keeps what the call before returned when it was made for the same id
ThemeFor(id) ==
    /\ themed' = [id |-> id, theme |-> getThemeForId(id),
                  before |-> IF themed.id = id THEN themed.theme ELSE NoTheme]
    /\ UNCHANGED <<appVars, loaded, speechVars, lastDelete, textured, sized, envVars>>

\* The text of n code units
TextOfLength(n) == [i \in 1..n |-> 97]

\* Headwords of every length up to MaxTextLen, the empty one among them
Texts == {TextOfLength(n) : n \in 0..MaxTextLen}

\* getFontSize(card.french), as the grid calls it for a card
FontSizeFor(text) ==
    /\ sized' = [text |-> text, size |-> getFontSize(text)]
    /\ UNCHANGED <<appVars, loaded, speechVars, lastDelete, themed, textured, envVars>>

\* The seven labels the prompt asks the endpoint to choose from
TextureLabels == {"fur", "wood", "water", "plant", "fabric", "metal", "stone"}

\* card.texture: absent, or whatever string the endpoint answered
TextureTags ==
    {<<>>} \cup {<<t>> : t \in TextureLabels \cup {"", "glass", "Stone", "constructor"}}

\* getTextureForCard(card.texture), as the grid calls it for a card
TextureFor(tag) ==
    /\ textured' = [tag |-> tag, pattern |-> getTextureForCard(tag)]
    /\ UNCHANGED <<appVars, loaded, speechVars, lastDelete, themed, sized, envVars>>

NextRender ==
    \/ \E id \in IdsToTheme : ThemeFor(id)
    \/ \E text \in Texts : FontSizeFor(text)
    \/ \E tag \in TextureTags : TextureFor(tag)

SpecRender == InitRender /\ [][NextRender]_vars

-----------------------------------------------------------------------------
(* Pronunciation client: playPronunciation over the Web Speech API *)

\* The voice list once the platform has loaded it
Lang_frFR == <<102, 114, 45, 70, 82>>               \* "fr-FR"
Lang_frCA == <<102, 114, 45, 67, 65>>               \* "fr-CA"
Lang_enUS == <<101, 110, 45, 85, 83>>               \* "en-US"
Str_fr    == <<102, 114>>                           \* "fr"
Str_Google  == <<71, 111, 111, 103, 108, 101>>      \* "Google"
Str_Premium == <<80, 114, 101, 109, 105, 117, 109>> \* "Premium"
Name_Thomas == <<84, 104, 111, 109, 97, 115>>       \* "Thomas"
Name_GoogleFr == Str_Google \o <<32, 102, 114>>     \* "Google fr"
Name_AmeliePremium == <<65, 109, 32>> \o Str_Premium \* "Am Premium"

LoadedVoices == <<[lang |-> Lang_frFR, name |-> Name_GoogleFr]>>

\* String.prototype.startsWith
startsWith(s, p) == Len(p) <= Len(s) /\ SubSeq(s, 1, Len(p)) = p

\* v.lang === 'fr-FR' && (v.name.includes('Google') || v.name.includes('Premium'))
IsPremiumFrFR(v) ==
    v.lang = Lang_frFR /\ (includes(v.name, Str_Google) \/ includes(v.name, Str_Premium))

\* v.lang.startsWith('fr')
IsTaggedFr(v) == startsWith(v.lang, Str_fr)

\* utterance.voice is left unset
NoVoice == [lang |-> <<>>, name |-> <<>>]

\* The first voice of vs that is a premium fr-FR voice, else the first whose lang
\* starts with 'fr', else none: voices.find(...) || voices.find(...)
selectVoice(vs) ==
    LET premium == {i \in 1..Len(vs) : IsPremiumFrFR(vs[i])}
        french  == {i \in 1..Len(vs) : IsTaggedFr(vs[i])}
        first(S) == CHOOSE i \in S : \A j \in S : i <= j
    IN  IF premium # {} THEN vs[first(premium)]
        ELSE IF french # {} THEN vs[first(french)]
        ELSE NoVoice

CallIds == DOMAIN calls
Pending(c) == calls[c].outcome = "pending"

\* The caller's code after the await: the handler's flag goes back to false
FlagAfter(flag, kind, mine) == IF kind = mine THEN FALSE ELSE flag

\* resolve() of call c with the given outcome, and the caller's continuation
Settle(c, outcome, cs) ==
    /\ calls' = [cs EXCEPT ![c].outcome = outcome]
    /\ isPlaying' = FlagAfter(isPlaying, cs[c].kind, "word")
    /\ isPlayingExample' = FlagAfter(isPlayingExample, cs[c].kind, "example")

\* Faulty variant: errors other than 'interrupted' reject the promise
onerror_Rejects(e) == IF e = "interrupted" THEN "resolve" ELSE "reject"

\* utterance.onerror, e being the event's error code: the code is logged unless
\* it is 'interrupted', and the promise is resolved
onerror(e) == "resolve"

\* The promise of call c is settled: resolved with the given outcome, or
\* rejected, and then the caller's code after the await does not run
Finish(c, how, outcome, cs) ==
    IF how = "resolve"
    THEN Settle(c, outcome, cs)
    ELSE /\ calls' = [cs EXCEPT ![c].outcome = "rejected"]
         /\ UNCHANGED <<isPlaying, isPlayingExample>>

Elements(q) == {q[i] : i \in 1..Len(q)}

\* Faulty variant: nothing is cancelled
AfterCancel_Nothing(q) == q

\* speak() begins with speechSynthesis.cancel(): the utterance queue after it
AfterCancel(q) == <<>>

\* Faulty variant: speak() queues its utterance without cancel()
Speak_WithoutCancel(c, cs, vs) ==
    /\ cancelled' = cancelled
    /\ queue' = Append(queue, c)
    /\ calls' = [cs EXCEPT ![c].spoken = @ + 1, ![c].voice = selectVoice(vs)]

\* speak() of call c, vs being what getVoices() returns: the utterances that
\* cancel() removes get an error event, the utterance gets its voice, and
\* speechSynthesis.speak queues it
Speak(c, cs, vs) ==
    /\ cancelled' = cancelled \cup (Elements(queue) \ Elements(AfterCancel(queue)))
    /\ queue' = Append(AfterCancel(queue), c)
    /\ calls' = [cs EXCEPT ![c].spoken = @ + 1, ![c].voice = selectVoice(vs)]

NewCall(kind, deferred) ==
    [kind |-> kind, outcome |-> "pending", deferred |-> deferred, spoken |-> 0,
     voice |-> NoVoice,
     overlaps |-> {c \in CallIds : Pending(c)}]

\* The handler installed while the voice list is empty
DeferredHandler(old, c) == c

\* playPronunciation(text), called by a handler of the given kind
\* ("word": handlePlay, "example": handlePlayExample, "list": handleListPlay)
Play(kind) ==
    LET c == Cardinality(CallIds) + 1
        flagged ==
            /\ isPlaying' = (isPlaying \/ kind = "word")
            /\ isPlayingExample' = (isPlayingExample \/ kind = "example")
    IN  /\ c <= MaxCalls
        /\ IF ~supported
           THEN /\ Settle(c, "unsupported", (c :> NewCall(kind, FALSE)) @@ calls)
                /\ UNCHANGED <<onvoiceschanged, queue, cancelled>>
           ELSE IF Len(voices) = 0
           THEN /\ onvoiceschanged' = DeferredHandler(onvoiceschanged, c)
                /\ calls' = (c :> NewCall(kind, TRUE)) @@ calls
                /\ flagged
                /\ UNCHANGED <<queue, cancelled>>
           ELSE /\ Speak(c, (c :> NewCall(kind, FALSE)) @@ calls, voices)
                /\ flagged
                /\ UNCHANGED onvoiceschanged
        /\ UNCHANGED <<appVars, loaded, supported, voices, lastDelete, helperVars, envVars>>

handlePlay == Play("word")
handlePlayExample == Play("example")
handleListPlay == Play("list")

\* The platform's voice list has changed: the voiceschanged event
VoicesChanged ==
    /\ supported
    /\ voices' = (IF voices = <<>> THEN LoadedVoices ELSE voices)
    /\ IF onvoiceschanged > 0
       THEN /\ onvoiceschanged' = NoHandler
            /\ Speak(onvoiceschanged, calls, voices')
       ELSE UNCHANGED <<onvoiceschanged, calls, queue, cancelled>>
    /\ UNCHANGED <<appVars, loaded, supported, isPlaying, isPlayingExample, lastDelete, helperVars, envVars>>

\* The utterance being spoken ends: utterance.onend
UtteranceEnd ==
    /\ queue # <<>>
    /\ Settle(Head(queue), "ended", calls)
    /\ queue' = Tail(queue)
    /\ UNCHANGED <<appVars, loaded, supported, voices, onvoiceschanged, cancelled,
                   lastDelete, helperVars, envVars>>

\* The platform fails the utterance being spoken: utterance.onerror
UtteranceError ==
    /\ queue # <<>>
    /\ Finish(Head(queue), onerror("synthesis-failed"), "error", calls)
    /\ queue' = Tail(queue)
    /\ UNCHANGED <<appVars, loaded, supported, voices, onvoiceschanged, cancelled,
                   lastDelete, helperVars, envVars>>

\* The error event of an utterance that cancel() removed: utterance.onerror
UtteranceInterrupted(c) ==
    /\ c \in cancelled
    /\ Finish(c, onerror("interrupted"), "interrupted", calls)
    /\ cancelled' = cancelled \ {c}
    /\ UNCHANGED <<appVars, loaded, supported, voices, onvoiceschanged, queue,
                   lastDelete, helperVars, envVars>>

InitSpeech ==
    /\ Mounted(NoItem)
    /\ apiKey = NoKey
    /\ supported \in BOOLEAN
    /\ voices \in {<<>>, LoadedVoices}

NextSpeech ==
    \/ handlePlay
    \/ handlePlayExample
    \/ handleListPlay
    \/ VoicesChanged
    \/ UtteranceEnd
    \/ UtteranceError
    \/ \E c \in cancelled : UtteranceInterrupted(c)

SpecSpeech == InitSpeech /\ [][NextSpeech]_vars

\* Voices a platform may offer: a plain and a premium fr-FR voice, a premium
\* fr-CA voice, and a premium voice of another language
VoicePool ==
    {[lang |-> Lang_frFR, name |-> Name_Thomas], [lang |-> Lang_frFR, name |-> Name_GoogleFr],
     [lang |-> Lang_frCA, name |-> Name_AmeliePremium], [lang |-> Lang_enUS, name |-> Str_Google]}

\* Every list of at most MaxVoices of them, the empty list (not yet loaded) among them
VoiceLists == SeqsUpTo(VoicePool, MaxVoices)

InitVoices ==
    /\ Mounted(NoItem)
    /\ apiKey = NoKey
    /\ supported = TRUE
    /\ voices \in VoiceLists

\* The grid's speaker button over every voice list
NextVoices ==
    \/ handleListPlay
    \/ VoicesChanged
    \/ UtteranceEnd

SpecVoices == InitVoices /\ [][NextVoices]_vars

\* The platform delivers its events: the voice list once loading, and the end or
\* the error of every utterance it has accepted
SpeechFairness ==
    /\ WF_vars(VoicesChanged)
    /\ WF_vars(UtteranceEnd)
    /\ WF_vars(\E c \in cancelled : UtteranceInterrupted(c))

SpecSpeechFair == SpecSpeech /\ SpeechFairness

-----------------------------------------------------------------------------
(* Claims about generation without a credential *)

\* C1: a generation attempt made with no credential configured fails with the
\* missing-credential failure, which the caller takes for what it is and not for
\* the generic failure, and adds no card to the in-memory or the persisted
\* collection.
C1_MissingCredentialFailure ==
    (apiKey = NoKey /\ error # NoError) =>
        /\ generateWordDetails(apiKey).threw
        /\ IsMissingKey(generateWordDetails(apiKey).message)
        /\ inflight = EmptyBag
        /\ cards = <<>>
        /\ stored = NoItem

\* C2: after a generation attempt has failed for want of a credential the sheet
\* shows the missing-credential message with the action that opens the settings;
\* after any other failure it shows the generic message without that action.
C2_MessageTellsTheFailure ==
    error # NoError =>
        IF apiKey = NoKey
        THEN error = MissingKeyText /\ ShowsConfigure(error)
        ELSE error = GenericText /\ ~ShowsConfigure(error)

\* C27: once a key has been saved in the settings sheet, no generation attempt
\* fails for want of a credential.
C27_SavedCredentialIsUsed ==
    [][~(/\ userKey # Empty
         /\ handleSubmitThrows
         /\ generateWordDetails(apiKey).message = MissingKeyError)]_vars

-----------------------------------------------------------------------------
(* Claims about the collection on screen *)

\* C3: handleDeleteCard(id) leaves no card of that id in the in-memory nor in
\* the persisted collection, and when the card was the one on view the selection
\* is cleared: the browse screen is shown and nothing selects the deleted id.
C3_DeleteRemovesAndClears ==
    [][\A id \in Ids(cards) :
          handleDeleteCard(id) =>
              /\ id \notin Ids(cards')
              /\ id \notin Ids(loadCards(stored'))
              /\ selectedCardId' # id
              /\ (selectedCardId = id => selectedCardId' = Null /\ BrowseShown')]_vars

\* The card on view has been deleted from the detail view
C3_Witness ==
    /\ lastDelete.onView
    /\ lastDelete.id \notin Ids(cards)
    /\ lastDelete.id \notin Ids(loadCards(stored))
    /\ selectedCardId = Null
    /\ Len(cards) = 5

-----------------------------------------------------------------------------
(* Claims about the persistence adapter *)

\* C4: whatever collection was saved last, loading yields a collection equal to
\* it: the same cards with the same fields and values, in the same order,
\* whatever had been stored under the key before.
C4_RoundTrip ==
    /\ stored.kind = "json" => loadCards(stored) = cards
    /\ stored.kind = "none" => loadCards(stored) = <<>>

\* Two different cards, one of them without its optional fields, have been
\* saved and loaded back
C4_Witness ==
    /\ stored.kind = "json"
    /\ Len(cards) = 2
    /\ cards[1] # cards[2]
    /\ \E i \in 1..2 : "texture" \notin DOMAIN cards[i]
    /\ loaded = cards

\* C22 as stated: a mount that finds nothing under the key starts with the
\* empty collection; a mount that finds a value that is not parseable JSON
\* raises an error, and its collection is not set from storage.
C22_UnparseableLoadRaises ==
    [][Reload =>
          /\ stored.kind = "none" => ~boot'.threw /\ cards' = <<>>
          /\ JSONparseThrows(stored) => boot'.threw /\ cards' = <<>>]_vars

\* C22 amended: a mount that finds nothing under the key, or the empty string,
\* starts with the empty collection and raises nothing; a mount that finds a
\* text, not empty, that is not parseable JSON raises an error, and its
\* collection is not set from storage.
C22_CorruptLoadRaises ==
    [][Reload =>
          /\ stored.kind \in {"none", "empty"} => ~boot'.threw /\ cards' = <<>>
          /\ stored.kind = "corrupt" => boot'.threw /\ cards' = <<>>]_vars

\* The page has been loaded over a corrupt item written after a session that
\* had cards
C22_Witness ==
    /\ boot.item = CorruptItem
    /\ boot.threw
    /\ cards = <<>>
    /\ stored = CorruptItem

-----------------------------------------------------------------------------
(* Claims about search and review *)

Headwords(cs) == {cs[i]["french"] : i \in 1..Len(cs)}

\* The collection holds the cards chat / U+732B and chien / U+72D7
HoldsChatAndChien ==
    /\ \E i \in 1..Len(cards) :
          cards[i]["french"] = Str_chat /\ cards[i]["translation"] = Str_mao
    /\ \E i \in 1..Len(cards) :
          cards[i]["french"] = Str_chien /\ cards[i]["translation"] = Str_gou

\* C5 as stated: of chat and chien, the query "ch" returns only chat, and the
\* query U+72D7 returns only the card of chien.
C5_ChReturnsOnlyChat ==
    HoldsChatAndChien =>
        /\ searchQuery = Str_ch =>
              Headwords(filteredCards) \cap {Str_chat, Str_chien} = {Str_chat}
        /\ searchQuery = Str_gou => Headwords(filteredCards) = {Str_chien}

\* C5 amended: the query "ch" returns chat and chien, both headwords holding
\* "ch"; the query U+72D7 returns only the card of chien.
C5_ChReturnsChatAndChien ==
    HoldsChatAndChien =>
        /\ searchQuery = Str_ch =>
              Headwords(filteredCards) \cap {Str_chat, Str_chien} = {Str_chat, Str_chien}
        /\ searchQuery = Str_gou => Headwords(filteredCards) = {Str_chien}

\* Both queries have been typed over a collection holding the two cards
C5_WitnessCh == HoldsChatAndChien /\ searchQuery = Str_ch /\ Len(filteredCards) >= 2

Occurrences(cs, c) == Cardinality({i \in 1..Len(cs) : cs[i] = c})

\* s holds the cards of t, each as often, by createdAt ascending
IsAscendingOrderOf(s, t) ==
    LET shown == s
        given == t
    IN  /\ Len(shown) = Len(given)
        /\ \A i \in 1..Len(given) :
              Occurrences(shown, given[i]) = Occurrences(given, given[i])
        /\ \A i \in 1..Len(shown), j \in 1..Len(shown) :
              i < j => shown[i]["createdAt"] <= shown[j]["createdAt"]

CreatedAts(cs) == [i \in 1..Len(cs) |-> cs[i]["createdAt"]]

\* C6: in review mode the cards shown are the filtered collection by createdAt
\* ascending; choosing a tab changes neither the in-memory nor the persisted
\* collection, and no step taken in review mode reorders them.
C6_ReviewOrder ==
    [][/\ view' = REVIEW => IsAscendingOrderOf(displayedCards', filteredCards')
       /\ view' # REVIEW => displayedCards' = filteredCards'
       /\ view' # view => cards' = cards /\ stored' = stored
       /\ (view = REVIEW \/ view' = REVIEW) =>
             /\ cards' = SelectSeq(cards, LAMBDA c : c["id"] \in Ids(cards'))
             /\ loadCards(stored') = cards']_vars

\* Review mode shows the cards stored as 300, 100, 200, ... as 100, 200, 300, ...
\* while the card of 300 is still the first of the collection
C6_Witness ==
    /\ view = REVIEW
    /\ searchQuery = Empty
    /\ Len(cards) = 6
    /\ SubSeq(CreatedAts(cards), 1, 3) = <<300, 100, 200>>
    /\ SubSeq(CreatedAts(displayedCards), 1, 3) = <<100, 200, 300>>
    /\ SubSeq(CreatedAts(loadCards(stored)), 1, 3) = <<300, 100, 200>>

\* The positions of cs whose card holds q: in its headword whatever the case of
\* either, or in its translation as typed
Holding(cs, q) ==
    {i \in 1..Len(cs) :
        \/ includes(toLowerCase(cs[i]["french"]), toLowerCase(q))
        \/ includes(cs[i]["translation"], q)}

\* The k-th position of S, counting from the least
Nth(S, k) == CHOOSE i \in S : Cardinality({j \in S : j <= i}) = k

\* C21: the filtered list is exactly the cards, in collection order, whose
\* lower-cased headword contains the lower-cased query or whose translation
\* contains the query as typed; the empty query returns the whole collection.
C21_FilterIsSubstringMatch ==
    LET hold == Holding(cards, searchQuery)
    IN  /\ Len(filteredCards) = Cardinality(hold)
        /\ \A k \in 1..Len(filteredCards) : filteredCards[k] = cards[Nth(hold, k)]
        /\ searchQuery = Empty => filteredCards = cards

\* "CH" has been typed over cards of which Chou, chat and chien hold it in
\* their headword, and some card does not
C21_Witness ==
    /\ searchQuery = Str_CH
    /\ Len(filteredCards) >= 2
    /\ Len(filteredCards) < Len(cards)
    /\ filteredCards[1]["french"] = Str_Chou

\* The search input is rendered
SearchShown(cs) == Len(cs) > 5

\* C29: whenever the search input is not rendered, the collection holding 5
\* cards or fewer, no filter is in force: the grid shows every card of the
\* collection, also after deletions made while a query was typed.
C29_NoFilterWhenSearchHidden ==
    ~SearchShown(cards) =>
        /\ Len(displayedCards) = Len(cards)
        /\ Elements(displayedCards) = Elements(cards)

-----------------------------------------------------------------------------
(* Claims about edit mode *)

\* C23: a card is deleted from the grid only while edit mode is on; while edit
\* mode is on no click selects a card, so none opens the detail view; and
\* toggling edit mode changes neither the in-memory nor the persisted
\* collection nor the selection.
C23_EditModeGatesDeleteAndSelect ==
    [][/\ (BrowseShown /\ Len(cards') < Len(cards)) => isEditing
       /\ isEditing => selectedCardId' = selectedCardId /\ ~DetailShown'
       /\ isEditing' # isEditing =>
             cards' = cards /\ stored' = stored /\ selectedCardId' = selectedCardId]_vars

\* Edit mode is on, a card has been deleted from the grid, none is selected
C23_Witness ==
    /\ isEditing
    /\ lastDelete.id # Null /\ ~lastDelete.onView
    /\ lastDelete.id \notin Ids(cards)
    /\ Len(cards) = 5
    /\ selectedCardId = Null

\* Ids that no card has
AbsentIds == {Digits(999), Empty}

\* C30: handleDeleteCard(id) leaves in the in-memory and in the persisted
\* collection every card of another id, with all its fields, in the order they
\* were in; called for an id no card has it would change no card and no
\* selection; and it changes neither the view mode, nor edit mode, nor the
\* search text.
C30_DeleteLeavesTheRest ==
    [][\A id \in Ids(cards) :
          handleDeleteCard(id) =>
              LET keep == {i \in 1..Len(cards) : cards[i]["id"] # id}
              IN  /\ Len(cards') = Cardinality(keep)
                  /\ \A k \in 1..Len(cards') : cards'[k] = cards[Nth(keep, k)]
                  /\ loadCards(stored') = cards'
                  /\ view' = view /\ isEditing' = isEditing /\ searchQuery' = searchQuery
                  /\ \A absent \in AbsentIds :
                        /\ WithoutId(cards', absent) = cards'
                        /\ SelectionAfterDelete(selectedCardId', absent) = selectedCardId']_vars

\* In review mode with "ch" typed, a card has been deleted from the middle of
\* the grid: cards stay before and after where it was
C30_Witness ==
    /\ lastDelete.id = Digits(100) /\ ~lastDelete.onView
    /\ view = REVIEW /\ isEditing /\ searchQuery = Str_ch
    /\ CreatedAts(cards) = <<300, 200, 400, 500, 600>>
    /\ loadCards(stored) = cards

-----------------------------------------------------------------------------
(* Claims about pronunciation *)

Settled(c) == ~Pending(c)
KindSettled(kind) == \A c \in CallIds : calls[c].kind = kind => Settled(c)

\* C7: of two calls made in quick succession (the later while the earlier is
\* pending) the earlier utterance never runs to completion, so only one can: once
\* both calls have settled the earlier was interrupted and the later ran to its
\* end, unless the platform failed it or a still later call cancelled it; and
\* once every call of a play handler has settled, its playing indicator is false.
C7_SecondSupersedesFirst ==
    /\ \A b \in CallIds : \A a \in calls[b].overlaps :
          /\ calls[a].outcome \in {"pending", "interrupted"}
          /\ Settled(a) /\ Settled(b) =>
                calls[b].outcome \in {"ended", "error", "interrupted"}
    /\ KindSettled("word") => ~isPlaying
    /\ KindSettled("example") => ~isPlayingExample

\* handlePlay twice in quick succession: the first utterance was interrupted,
\* the second ran to its end, and the indicator is false
C7_Witness ==
    /\ Cardinality(CallIds) = 2
    /\ calls[1].kind = "word" /\ calls[2].kind = "word"
    /\ 1 \in calls[2].overlaps
    /\ calls[1].outcome = "interrupted"
    /\ calls[2].outcome = "ended"
    /\ ~isPlaying

\* C8: every call of playPronunciation eventually settles, and so a playing
\* indicator that is true eventually becomes false.
C8_EveryCallSettles ==
    /\ \A c \in 1..MaxCalls :
          (c \in CallIds /\ Pending(c)) ~> (c \in CallIds /\ Settled(c))
    /\ isPlaying ~> ~isPlaying
    /\ isPlayingExample ~> ~isPlayingExample

\* C9: speak() cancels what the synthesizer holds before it queues its own
\* utterance, so the synthesizer never holds more than one utterance of the
\* client, and at most one call is pending with its utterance started and not
\* cancelled.
C9_AtMostOneUtterance ==
    /\ Len(queue) <= 1
    /\ Cardinality({c \in CallIds :
           Pending(c) /\ calls[c].spoken > 0 /\ c \notin cancelled}) <= 1

\* A second utterance has been started while the first was being spoken
C9_Witness ==
    /\ Len(queue) = 1
    /\ cancelled # {}
    /\ \A c \in cancelled : c < queue[1] /\ calls[c].spoken = 1

\* C10: a call made while the voice list is empty does not speak before the
\* list is available, and has spoken exactly once when it is, also when several
\* calls were made before the voices were loaded.
C10_DeferredSpeaksOnce ==
    \A c \in CallIds :
        calls[c].deferred =>
            calls[c].spoken = (IF Len(voices) = 0 THEN 0 ELSE 1)

\* C19: when the platform reports an error or an interruption for the
\* utterance of a pending call, the call's promise is resolved, never rejected,
\* and the caller's code after the await has run: the playing flag of the
\* handler that made the call is false.
C19_SpeechErrorsResolve ==
    [][\A c \in CallIds :
          Pending(c) /\ calls'[c].outcome \notin {"pending", "ended"} =>
              /\ calls'[c].outcome \in {"error", "interrupted"}
              /\ calls[c].kind = "word" => ~isPlaying'
              /\ calls[c].kind = "example" => ~isPlayingExample']_vars

\* The platform has failed the utterance of the only call, made by handlePlay
C19_Witness ==
    /\ Cardinality(CallIds) = 1
    /\ calls[1].kind = "word"
    /\ calls[1].outcome = "error"
    /\ ~isPlaying

\* C28: the headword's playing indicator is true in every state in which an
\* utterance started by handlePlay is held by the synthesizer, also when
\* handlePlay was called again while an earlier call was pending and the earlier
\* call has since been resolved.
C28_IndicatorWhileSpeaking ==
    \A i \in 1..Len(queue) : calls[queue[i]].kind = "word" => isPlaying

\* A voice tagged French whose name tells of a higher-quality engine
IsPremiumFrench(v) ==
    IsTaggedFr(v) /\ (includes(v.name, Str_Google) \/ includes(v.name, Str_Premium))

\* C20: the voice of every utterance spoken is a premium French voice when the
\* list holds one; else a voice tagged French when the list holds one; else
\* none is set; and never a voice that is not French.
C20_VoiceSelection ==
    \A c \in CallIds :
        calls[c].spoken > 0 =>
            LET chosen == calls[c].voice
                Listed == Elements(voices)
            IN  /\ chosen # NoVoice => chosen \in Listed /\ IsTaggedFr(chosen)
                /\ IF \E v \in Listed : IsPremiumFrench(v)
                   THEN chosen # NoVoice /\ IsPremiumFrench(chosen)
                   ELSE IF \E v \in Listed : IsTaggedFr(v)
                   THEN chosen # NoVoice
                   ELSE chosen = NoVoice

-----------------------------------------------------------------------------
(* Claims about the collection *)

\* C14: no two cards of the in-memory collection, and no two of the persisted
\* one, have the same id, whatever generations and deletions came before.
C14_IdsAreUnique ==
    /\ \A i \in 1..Len(cards), j \in 1..Len(cards) :
          i # j => cards[i]["id"] # cards[j]["id"]
    /\ LET persisted == loadCards(stored)
       IN  \A i \in 1..Len(persisted), j \in 1..Len(persisted) :
               i # j => persisted[i]["id"] # persisted[j]["id"]

\* cs by createdAt, greatest first
NewestFirstByCreatedAt(cs) ==
    \A i \in 1..Len(cs), j \in 1..Len(cs) :
        i < j => cs[i]["createdAt"] >= cs[j]["createdAt"]

\* C15 as stated: in the in-memory and in the persisted collection each card's
\* createdAt is greater than or equal to that of every card after it.
C15_NewestFirstByCreatedAt ==
    NewestFirstByCreatedAt(cards) /\ NewestFirstByCreatedAt(loadCards(stored))

\* C15 amended: the collection is in insertion order, newest first. A step that
\* changes it either puts one new card, stamped with the clock's reading, in
\* front of the cards its handler holds, or removes cards and keeps the order of
\* the rest; and the persisted collection is the in-memory one.
C15_NewestFirstByInsertion ==
    [][cards' # cards =>
          /\ \/ \E g \in BagToSet(inflight) :
                   /\ cards' # <<>>
                   /\ Tail(cards') = g.cards
                   /\ Head(cards')["french"] = g.word
                   /\ Head(cards')["createdAt"] = now
             \/ /\ Len(cards') < Len(cards)
                /\ cards' = SelectSeq(cards, LAMBDA c : c["id"] \in Ids(cards'))
          /\ loadCards(stored') = cards']_vars

\* A card has been created in front of an older one
C15_Witness ==
    /\ Len(cards) = 2
    /\ cards[1]["createdAt"] > cards[2]["createdAt"]
    /\ loadCards(stored) = cards

\* C16: after the initial load and after every completed add or delete, what
\* loadCards would read from storage is the in-memory collection.
C16_PersistedIsInMemory == loadCards(stored) = cards

\* Two cards have been added and one of them deleted
C16_Witness ==
    /\ lastDelete.id # Null
    /\ Len(cards) = 1
    /\ lastDelete.id \notin Ids(cards)
    /\ stored = saveCards(cards)

\* C24: once a card has been deleted it is never again in the in-memory nor in
\* the persisted collection: no step brings the deleted id back among the cards
\* behind the first (the first may be a card the step has just created), also
\* not the completion of a generation call that was in flight at the delete.
C24_DeletedNeverReturns ==
    [][(lastDelete.id # Null /\ lastDelete.id \notin Ids(cards)) =>
          LET persisted == loadCards(stored')
          IN  /\ \A i \in 2..Len(cards') : cards'[i]["id"] # lastDelete.id
              /\ \A i \in 2..Len(persisted) : persisted[i]["id"] # lastDelete.id]_vars

\* C25: a card of the collection stays in it until it is deleted: a step that
\* removes a card from the in-memory or the persisted collection is a call of
\* handleDeleteCard, never the completion of a generation call.
C25_AddedStaysUntilDeleted ==
    [][(\/ \E i \in 1..Len(cards) : cards[i] \notin Elements(cards')
        \/ \E i \in 1..Len(loadCards(stored)) :
               loadCards(stored)[i] \notin Elements(loadCards(stored')))
          => \E id \in Ids(cards) : handleDeleteCard(id)]_vars

\* C26: the selected id is empty or the id of a card of the in-memory
\* collection, so a selection always has its detail view.
C26_SelectionIsACard == selectedCardId = Null \/ selectedCardId \in Ids(cards)

-----------------------------------------------------------------------------
(* Claims about generation *)

\* The eight fields of the response schema
SchemaFields == {"translation", "definition", "exampleSentence", "exampleTranslation",
                 "phonetic", "gender", "nuance", "texture"}

\* A response that is missing, is not JSON, or is not an object carrying the
\* eight fields
Malformed(r) == r.kind # "json" \/ ~(SchemaFields \subseteq DOMAIN r.value)

\* C17: when the response to a generation call is malformed or missing, the
\* call fails, the sheet shows the generic message, and no card is added to
\* the in-memory or the persisted collection.
C17_MalformedResponseFails ==
    [][\A g \in BagToSet(inflight), r \in Responses :
          Malformed(r) /\ (GenerationSucceeds(g, r) \/ GenerationFails(g, r)) =>
              /\ generateWordDetailsResume(r).threw
              /\ error' = GenericText
              /\ cards' = cards
              /\ stored' = stored]_vars

\* C18: while a generation call is in flight the submit action is disabled,
\* so that at most one generation call is in flight at a time, whatever the
\* sheet has been through: opened, closed, typed in, submitted.
C18_AtMostOneInFlight ==
    /\ inflight # EmptyBag => ~CanSubmit
    /\ BagCardinality(inflight) <= 1

-----------------------------------------------------------------------------
(* Claims about the presentation helpers *)

RECURSIVE CodeSum(_)
\* The sum of the code units of s
CodeSum(s) == IF s = <<>> THEN 0 ELSE s[Len(s)] + CodeSum(SubSeq(s, 1, Len(s) - 1))

Palette == {CARD_THEMES[i] : i \in 1..Len(CARD_THEMES)}

\* C11: the theme getThemeForId returns for an id is the palette entry at index
\* (sum of the id's character codes) mod 7, it is one of the 7 entries of the
\* palette, also for the empty id, and a second call for the same id returns
\* what the first returned.
C11_ThemeIsPureFunctionOfId ==
    themed.theme # NoTheme =>
        /\ Cardinality(Palette) = 7
        /\ themed.theme \in Palette
        /\ themed.theme = CARD_THEMES[(CodeSum(themed.id) % 7) + 1]
        /\ themed.before # NoTheme => themed.before = themed.theme

\* The helper has been called twice for one id of three code units, and for it
\* the last entry of the palette is chosen
C11_Witness ==
    /\ Len(themed.id) = 3
    /\ themed.before = themed.theme
    /\ themed.theme = CARD_THEMES[7]

\* The size classes, smallest first (Tailwind: 3xl < 4xl < 5xl < 6xl)
FontSizes == <<"text-3xl sm:text-4xl leading-tight", "text-4xl sm:text-5xl leading-tight",
               "text-5xl sm:text-6xl leading-none", "text-6xl sm:text-7xl leading-none">>

SizeRank(size) == CHOOSE i \in 1..Len(FontSizes) : FontSizes[i] = size

\* C12: getFontSize returns the largest size for every text of at most 4 code
\* units, never a larger size for a longer text, and exactly four sizes, the
\* size changing between the lengths 4 and 5, 8 and 9, 12 and 13 and nowhere else.
C12_FourBandsNonIncreasing ==
    sized.size # NoCall =>
        /\ sized.size \in {FontSizes[i] : i \in 1..Len(FontSizes)}
        /\ Len(sized.text) <= 4 => sized.size = FontSizes[4]
        /\ \A t \in Texts :
              Len(t) >= Len(sized.text) => SizeRank(getFontSize(t)) <= SizeRank(sized.size)
        /\ Cardinality({getFontSize(t) : t \in Texts}) = 4
        /\ {n \in 0..(MaxTextLen - 1) :
               getFontSize(TextOfLength(n)) # getFontSize(TextOfLength(n + 1))} = {4, 8, 12}

\* The helper has been called for a text of 13 code units and gave the smallest size
C12_Witness == Len(sized.text) = 13 /\ sized.size = FontSizes[1]

\* C13: getTextureForCard returns the pattern of the tag when the tag is one of
\* the seven labels, and the stone pattern for every other tag: absent, empty
\* or unknown.
C13_KnownTagElseStone ==
    textured.pattern # NoPattern =>
        textured.pattern =
            IF textured.tag # <<>> /\ textured.tag[1] \in TextureLabels
            THEN TEXTURE_STYLES[textured.tag[1]]
            ELSE TEXTURE_STYLES.stone

====
